---- MODULE Spec2Model ----
(***************************************************************************)
(* PricePilot API: the GET /search pipeline of src/public-api.js.          *)
(*                                                                         *)
(* Strings are sequences of one-character strings, so that trim,           *)
(* toLowerCase, the regular expressions, Number() and parseFloat() are     *)
(* computed character by character.  Numbers read from query parameters    *)
(* are fixed-point with Scale = 10^FracDigits.  The prices the backends    *)
(* give are fixed-point with the same scale, and the prices of the offers, *)
(* which toFixed(2) has written, are in cents.                             *)
(***************************************************************************)
EXTENDS Integers, Sequences, FiniteSets, TLC

(***************************************************************************)
(* JavaScript values                                                       *)
(***************************************************************************)

\* `undefined`: a query parameter that is absent.  It is a sequence too, so
\* that it compares with strings, and no string equals it (its one element
\* is not a character).
Undefined == <<"undefined">>

\* ToBoolean of a query parameter: undefined and '' are falsy.
Truthy(s) == s # Undefined /\ s # <<>>

\* The numeric value NaN, and a finite number n (fixed point).
NaN == [nan |-> TRUE, v |-> 0]
Num(n) == [nan |-> FALSE, v |-> n]

\* a < b and a > b on numbers: every comparison with NaN is false.
NumLt(a, b) == ~a.nan /\ ~b.nan /\ a.v < b.v
NumGt(a, b) == ~a.nan /\ ~b.nan /\ a.v > b.v

Digits == {"0", "1", "2", "3", "4", "5", "6", "7", "8", "9"}

DigitVal(c) ==
  CASE c = "0" -> 0 [] c = "1" -> 1 [] c = "2" -> 2 [] c = "3" -> 3
    [] c = "4" -> 4 [] c = "5" -> 5 [] c = "6" -> 6 [] c = "7" -> 7
    [] c = "8" -> 8 [] c = "9" -> 9

\* White space of String.prototype.trim, Number() and parseFloat().
StrWhiteSpace == {" ", "\t"}

RECURSIVE TrimStart(_)
TrimStart(s) ==
  IF s # <<>> /\ Head(s) \in StrWhiteSpace THEN TrimStart(Tail(s)) ELSE s

RECURSIVE TrimEnd(_)
TrimEnd(s) ==
  IF s # <<>> /\ s[Len(s)] \in StrWhiteSpace
    THEN TrimEnd(SubSeq(s, 1, Len(s) - 1))
    ELSE s

\* String.prototype.trim
Trim(s) == TrimEnd(TrimStart(s))

\* String.prototype.toLowerCase, on the letters the inputs use.
LowerChar(c) ==
  CASE c = "T" -> "t" [] c = "V" -> "v" [] c = "P" -> "p" [] c = "C" -> "c"
    [] OTHER -> c

ToLowerCase(s) == [i \in 1..Len(s) |-> LowerChar(s[i])]

\* The fixed-point scale of numbers read from strings: 4 fractional digits.
FracDigits == 4

RECURSIVE Pow10(_)
Pow10(n) == IF n = 0 THEN 1 ELSE 10 * Pow10(n - 1)

Scale == Pow10(FracDigits)

\* Number of consecutive decimal digits of s from index i on.
RECURSIVE DigitRun(_, _)
DigitRun(s, i) ==
  IF i <= Len(s) /\ s[i] \in Digits THEN 1 + DigitRun(s, i + 1) ELSE 0

\* Value of the n digits of s from index i on, as an integer.
RECURSIVE IntDigits(_, _, _)
IntDigits(s, i, n) ==
  IF n = 0 THEN 0
  ELSE IntDigits(s, i, n - 1) * 10 + DigitVal(s[i + n - 1])

\* Value of the n fractional digits of s from index i on, scaled by Scale
\* (digits beyond FracDigits are dropped).
FracValue(s, i, n) ==
  LET k == IF n < FracDigits THEN n ELSE FracDigits
  IN  IntDigits(s, i, k) * Pow10(FracDigits - k)

\* The longest prefix of s that is a StrDecimalLiteral
\*   [+-]? ( digits ( . digits? )? | . digits )
\* as [ok, len, v]: whether there is one, its length and its value.
\* Exponents, Infinity and 0x/0o/0b literals are not in the inputs' alphabet.
DecimalPrefix(s) ==
  LET signed == s # <<>> /\ s[1] \in {"+", "-"}
      i  == IF signed THEN 2 ELSE 1
      n1 == DigitRun(s, i)
      dot == i + n1 <= Len(s) /\ s[i + n1] = "."
      n2 == IF dot THEN DigitRun(s, i + n1 + 1) ELSE 0
      ok == n1 > 0 \/ (dot /\ n2 > 0)
      len == (i - 1) + n1 + (IF dot THEN 1 + n2 ELSE 0)
      mag == IntDigits(s, i, n1) * Scale
               + (IF dot THEN FracValue(s, i + n1 + 1, n2) ELSE 0)
  IN  [ok |-> ok, len |-> len,
       v |-> IF signed /\ s[1] = "-" THEN 0 - mag ELSE mag]

\* parseFloat(s): the value of the longest numeric prefix after leading
\* white space; NaN when there is none.
ParseFloat(s) ==
  LET p == DecimalPrefix(TrimStart(s))
  IN  IF p.ok THEN Num(p.v) ELSE NaN

\* Number(s) (ToNumber of a string): white space is trimmed at both ends,
\* the empty string is 0, and the whole rest must be a numeric literal.
ToNumber(s) ==
  LET t == Trim(s)
      p == DecimalPrefix(t)
  IN  IF t = <<>> THEN Num(0)
      ELSE IF p.ok /\ p.len = Len(t) THEN Num(p.v)
      ELSE NaN

\* isNaN(x) of a string x: Number(x) is NaN.
IsNaN(s) == ToNumber(s).nan

(***************************************************************************)
(* validateSearchInput                                                     *)
(***************************************************************************)

MaxItemLength == 200
MaxLatitude == 90
MaxLongitude == 180

ErrRequired == "Search item is required"
ErrTooLong == "Search item is too long"
ErrChars == "Search item contains invalid characters"
ErrLat == "Invalid latitude"
ErrLon == "Invalid longitude"
ErrZip == "Invalid ZIP code format"

\* /[<>'"&]/.test(item)
InvalidChars == {"<", ">", "'", "\"", "&"}
HasInvalidChars(item) == \E i \in 1..Len(item) : item[i] \in InvalidChars

\* /^\d{5}(-\d{4})?$/.test(zip)
ZipMatches(zip) ==
  \/ Len(zip) = 5 /\ \A i \in 1..5 : zip[i] \in Digits
  \/ /\ Len(zip) = 10
     /\ \A i \in 1..5 : zip[i] \in Digits
     /\ zip[6] = "-"
     /\ \A i \in 7..10 : zip[i] \in Digits

\* lat && (isNaN(lat) || parseFloat(lat) < -max || parseFloat(lat) > max)
OutOfRange(x, max) ==
  Truthy(x) /\ (IsNaN(x) \/ NumLt(ParseFloat(x), Num(0 - max * Scale))
                         \/ NumGt(ParseFloat(x), Num(max * Scale)))

\* The errors array, in the order the messages are pushed.
validateSearchInput(item, lat, lon, zip) ==
  (IF ~Truthy(item) \/ Len(Trim(item)) = 0 THEN <<ErrRequired>> ELSE <<>>)
  \o (IF Truthy(item) /\ Len(item) > MaxItemLength THEN <<ErrTooLong>> ELSE <<>>)
  \o (IF Truthy(item) /\ HasInvalidChars(item) THEN <<ErrChars>> ELSE <<>>)
  \o (IF OutOfRange(lat, MaxLatitude) THEN <<ErrLat>> ELSE <<>>)
  \o (IF OutOfRange(lon, MaxLongitude) THEN <<ErrLon>> ELSE <<>>)
  \o (IF Truthy(zip) /\ ~ZipMatches(zip) THEN <<ErrZip>> ELSE <<>>)

(***************************************************************************)
(* Upstream JSON values and offers                                         *)
(***************************************************************************)

\* A JSON value of an upstream payload, with its JavaScript type.  Numbers
\* are fixed point with Scale, like the numbers read from strings.
JUndef == [t |-> "undefined"]
JNull == [t |-> "null"]
JNum(n) == [t |-> "number", nan |-> FALSE, n |-> n]
JNaN == [t |-> "number", nan |-> TRUE, n |-> 0]
JStr(s) == [t |-> "string", s |-> s]

\* x == null (null or undefined): what ?. and ?? test.
Nullish(x) == x.t \in {"undefined", "null"}

\* ToBoolean
JTruthy(x) ==
  CASE x.t = "number" -> ~x.nan /\ x.n # 0
    [] x.t = "string" -> x.s # <<>>
    [] OTHER -> FALSE

\* a || b and a ?? b
JOr(a, b) == IF JTruthy(a) THEN a ELSE b
JCoalesce(a, b) == IF Nullish(a) THEN b ELSE a

\* d dollars and c cents as a fixed-point number.
Dollars(d, c) == d * Scale + c * (Scale \div 100)

\* Number.prototype.toFixed(2), as a number of cents: the nearest cent, the
\* larger one of two equally near; the sign is set aside first.  NaN gives
\* the string "NaN".
ToFixed2(x) ==
  LET unit == Scale \div 100
      mag == IF x.v < 0 THEN 0 - x.v ELSE x.v
      n == (mag + unit \div 2) \div unit
  IN  IF x.nan THEN NaN ELSE Num(IF x.v < 0 THEN 0 - n ELSE n)

\* parseFloat(price) of an upstream value: a number is itself, a string is
\* parsed.
ParseFloatValue(x) ==
  CASE x.t = "number" -> (IF x.nan THEN NaN ELSE Num(x.n))
    [] x.t = "string" -> ParseFloat(x.s)
    [] OTHER -> NaN

(***************************************************************************)
(* Regular expressions of scrapeWalmart                                    *)
(***************************************************************************)

\* Whether the characters of lit stand in s from index i on.
LitAt(s, i, lit) ==
  /\ i + Len(lit) - 1 <= Len(s)
  /\ \A k \in 1..Len(lit) : s[i + k - 1] = lit[k]

\* String.prototype.includes
Includes(s, lit) == \E i \in 1..Len(s) : LitAt(s, i, lit)

\* Number of consecutive characters of s from index i on that are in set.
RECURSIVE RunLen(_, _, _)
RunLen(s, i, set) ==
  IF i <= Len(s) /\ s[i] \in set THEN 1 + RunLen(s, i + 1, set) ELSE 0

\* Length of the match of [\d,]+\.?\d* from index i on (0: no match).  No
\* shorter match can be followed by the literals that follow it in the
\* patterns below, which start with "/", white space or "d".
AmountLen(s, i) ==
  LET n1 == RunLen(s, i, Digits \cup {","})
      dot == i + n1 <= Len(s) /\ s[i + n1] = "."
      n2 == IF dot THEN RunLen(s, i + n1 + 1, Digits) ELSE 0
  IN  IF n1 = 0 THEN 0 ELSE n1 + (IF dot THEN 1 + n2 ELSE 0)

\* The least of the indices at which a pattern matches, 0 if there is
\* none: the leftmost match.
Leftmost(matches) ==
  IF matches = {} THEN 0
  ELSE CHOOSE i \in matches : \A j \in matches : i <= j

\* s.match(/\$([\d,]+\.?\d*)<ws>*<word>/): the first group, or Undefined.
\* ws says whether \s* stands between the amount and the word.
AmountBefore(s, ws, word) ==
  LET After(i) == LET j == i + 1 + AmountLen(s, i + 1)
                  IN  IF ws THEN j + RunLen(s, j, StrWhiteSpace) ELSE j
      P(i) == s[i] = "$" /\ AmountLen(s, i + 1) > 0 /\ LitAt(s, After(i), word)
      at == Leftmost({i \in 1..Len(s) : P(i)})
  IN  IF at = 0 THEN Undefined
      ELSE SubSeq(s, at + 1, at + AmountLen(s, at + 1))

Month == <<"m", "o", "n", "t", "h">>
SlashMonth == <<"/">> \o Month
Down == <<"d", "o", "w", "n">>

\* price.match(/\$([\d,]+\.?\d*)\/month/)
monthlyMatch(price) == AmountBefore(price, FALSE, SlashMonth)

\* A pattern for the down payment that never matches.
noDownPaymentMatch(price) == Undefined

\* price.match(/\$([\d,]+\.?\d*)\s*down/)
downPaymentMatch(price) == AmountBefore(price, TRUE, Down)

\* price.match(/(\d+)\s*months?/): the first group, or Undefined.  A match
\* starts at the first digit of a run of digits that white space and then
\* "month" follow.
durationMatch(price) ==
  LET P(i) == LET n == RunLen(price, i, Digits)
              IN  /\ n > 0
                  /\ LitAt(price, i + n + RunLen(price, i + n, StrWhiteSpace),
                           Month)
      at == Leftmost({i \in 1..Len(price) : P(i)})
  IN  IF at = 0 THEN Undefined
      ELSE SubSeq(price, at, at + RunLen(price, at, Digits) - 1)

\* s.replace(/,/g, '')
RemoveCommas(s) == SelectSeq(s, LAMBDA c : c # ",")

\* Lines 266-278: an installment string "$M/month for D months[, $P down]"
\* becomes the number M * D + P; any other price is left as it is.
InstallmentPrice(price) ==
  IF price.t = "string" /\ Includes(price.s, SlashMonth)
       /\ monthlyMatch(price.s) # Undefined
       /\ durationMatch(price.s) # Undefined
    THEN LET monthlyPayment == ParseFloat(RemoveCommas(monthlyMatch(price.s)))
             d == durationMatch(price.s)
             duration == IntDigits(d, 1, Len(d))
             dm == downPaymentMatch(price.s)
             downPayment == IF dm # Undefined
                              THEN ParseFloat(RemoveCommas(dm))
                              ELSE Num(0)
         IN  IF monthlyPayment.nan \/ downPayment.nan THEN JNaN
             ELSE JNum(monthlyPayment.v * duration + downPayment.v)
    ELSE price

(***************************************************************************)
(* The store adapters                                                      *)
(***************************************************************************)

\* if (results.length >= 10) break;
MaxResults == 10

\* What axios.get gives an adapter: it throws (transport error, timeout,
\* error status after the retries), or it returns a body.  A body is null
\* (no JSON object) or an object with a list of product records.
AxiosError == [t |-> "error"]
NullBody == [t |-> "null"]
Body(items) == [t |-> "data", items |-> items]

\* A settled promise, as Promise.allSettled reports it.
Fulfilled(v) == [status |-> "fulfilled", value |-> v]
Rejected(e) == [status |-> "rejected", reason |-> e]

\* An offer.  price is the string toFixed(2) gave: a number of cents, or
\* "NaN".
Offer(store, name, price, url, image) ==
  [store |-> store, name |-> name, price |-> price, url |-> url,
   image |-> image]

\* product.name?.trim(): undefined for a missing name, a TypeError for a
\* name that is no string (a number has no trim).
NameThrows(name) == ~Nullish(name) /\ name.t # "string"
TrimmedName(name) == IF Nullish(name) THEN JUndef ELSE JStr(Trim(name.s))

\* product.largeImage || product.mediumImage ||
\*   (product.imageEntities?.[0]?.largeImage
\*      || product.imageEntities?.[0]?.mediumImage)
WalmartImage(product) ==
  LET e == product.imageEntities
      first == IF e = <<>> THEN [largeImage |-> JUndef, mediumImage |-> JUndef]
               ELSE e[1]
  IN  JOr(product.largeImage,
          JOr(product.mediumImage, JOr(first.largeImage, first.mediumImage)))

\* A loop that never stops before the end of the records.
NeverFull(results) == FALSE

\* if (results.length >= 10) break;
Full(results) == Len(results) >= MaxResults

\* The loop of scrapeWalmart over data.items from index i on:
\* [threw, results], threw when a product raises.
RECURSIVE WalmartLoop(_, _, _)
WalmartLoop(items, i, results) ==
  IF i > Len(items) \/ Full(results)
    THEN [threw |-> FALSE, results |-> results]
  ELSE IF NameThrows(items[i].name)
    THEN [threw |-> TRUE, results |-> <<>>]
  ELSE
    LET product == items[i]
        name == TrimmedName(product.name)
        price == InstallmentPrice(JCoalesce(product.salePrice, product.msrp))
        link == IF JTruthy(product.itemId) THEN product.itemId ELSE JNull
        image == WalmartImage(product)
    IN  IF JTruthy(name) /\ JTruthy(price) /\ JTruthy(link) /\ JTruthy(image)
          THEN WalmartLoop(items, i + 1,
                 Append(results,
                   Offer("Walmart", name.s, ToFixed2(ParseFloatValue(price)),
                         link, image)))
          ELSE WalmartLoop(items, i + 1, results)

\* scrapeWalmart(item, lat, lon), given whether generateWalmartSignature
\* succeeds and what axios.get gives.  The signature is made before the try
\* block: when signing throws, the promise is rejected.  Inside the try
\* block every error gives [].
scrapeWalmart(signs, response) ==
  IF ~signs THEN Rejected("sign")
  ELSE IF response.t = "error" THEN Fulfilled(<<>>)
  ELSE IF response.t = "null" THEN Fulfilled(<<>>)
  ELSE LET r == WalmartLoop(response.items, 1, <<>>)
       IN  Fulfilled(IF r.threw THEN <<>> ELSE r.results)

\* The loop of scrapeTarget over the products from index i on.  The name
\* is item.product_description.title, the price price.current_retail.
\* price.toFixed(2) raises for a price that is a string.
RECURSIVE TargetLoop(_, _, _)
TargetLoop(items, i, results) ==
  IF i > Len(items) \/ Full(results)
    THEN [threw |-> FALSE, results |-> results]
  ELSE IF NameThrows(items[i].title)
    THEN [threw |-> TRUE, results |-> <<>>]
  ELSE
    LET product == items[i]
        name == TrimmedName(product.title)
        price == product.current_retail
    IN  IF JTruthy(name) /\ JTruthy(price)
          THEN IF price.t # "number"
                 THEN [threw |-> TRUE, results |-> <<>>]
                 ELSE TargetLoop(items, i + 1,
                        Append(results,
                          Offer("Target", name.s, ToFixed2(Num(price.n)),
                                product.tcin, product.image)))
          ELSE TargetLoop(items, i + 1, results)

\* scrapeTarget(item, zip), given what axios.get gives.  Nothing before the
\* try block raises (findNearbyTargetStores catches its own errors and
\* only picks the store the prices are asked for), and data?.data?.search
\* ?.products || [] is [] for a null body.
scrapeTarget(response) ==
  IF response.t = "error" THEN Fulfilled(<<>>)
  ELSE IF response.t = "null" THEN Fulfilled(<<>>)
  ELSE LET r == TargetLoop(response.items, 1, <<>>)
       IN  Fulfilled(IF r.threw THEN <<>> ELSE r.results)

(***************************************************************************)
(* Array.prototype.sort                                                    *)
(***************************************************************************)

\* (a, b) => parseFloat(a.price) - parseFloat(b.price), as sort reads it:
\* -1, 0 or 1, and 0 for NaN (a price "NaN" on either side).
Compare(a, b) ==
  IF a.price.nan \/ b.price.nan THEN 0
  ELSE IF a.price.v < b.price.v THEN 0 - 1
  ELSE IF a.price.v > b.price.v THEN 1
  ELSE 0

\* Array.prototype.sort of V8 for fewer than 64 elements (the merged array
\* has at most 20): the leading run is counted, and reversed when it is
\* strictly descending, then each further element is inserted where a
\* binary search puts it.

\* Length of the leading run of arr: arr[idx] joins while the order
\* against its predecessor keeps the run's direction.
RECURSIVE RunLength(_, _, _)
RunLength(arr, idx, isDescending) ==
  IF idx > Len(arr) THEN idx - 1
  ELSE LET order == Compare(arr[idx], arr[idx - 1])
       IN  IF (isDescending /\ order >= 0) \/ (~isDescending /\ order < 0)
             THEN idx - 1
             ELSE RunLength(arr, idx + 1, isDescending)

Reverse(arr) == [i \in 1..Len(arr) |-> arr[Len(arr) + 1 - i]]

\* The place of pivot in the sorted arr[1..right-1]: a binary search.
RECURSIVE InsertionPoint(_, _, _, _)
InsertionPoint(arr, pivot, left, right) ==
  IF left >= right THEN left
  ELSE LET mid == left + ((right - left) \div 2)
       IN  IF Compare(pivot, arr[mid]) < 0
             THEN InsertionPoint(arr, pivot, left, mid)
             ELSE InsertionPoint(arr, pivot, mid + 1, right)

\* arr with arr[start..] inserted one by one into the sorted arr[1..start-1].
RECURSIVE BinaryInsertionSort(_, _)
BinaryInsertionSort(arr, start) ==
  IF start > Len(arr) THEN arr
  ELSE LET pivot == arr[start]
           at == InsertionPoint(arr, pivot, 1, start)
           moved == [i \in 1..Len(arr) |->
                       IF i < at \/ i > start THEN arr[i]
                       ELSE IF i = at THEN pivot
                       ELSE arr[i - 1]]
       IN  BinaryInsertionSort(moved, start + 1)

SortByPrice(arr) ==
  IF Len(arr) < 2 THEN arr
  ELSE LET isDescending == Compare(arr[2], arr[1]) < 0
           n == RunLength(arr, 3, isDescending)
           run == IF isDescending
                    THEN Reverse(SubSeq(arr, 1, n)) \o SubSeq(arr, n + 1, Len(arr))
                    ELSE arr
       IN  BinaryInsertionSort(run, n + 1)

(***************************************************************************)
(* JSON, the cache key and the responses                                   *)
(***************************************************************************)

\* JSON.stringify of an array of offers, as the list of the objects it
\* writes: a property whose value is undefined is left out.
Stringify(offers) ==
  [i \in 1..Len(offers) |->
     IF "image" \in DOMAIN offers[i] /\ offers[i].image = JUndef
       THEN [f \in DOMAIN offers[i] \ {"image"} |-> offers[i][f]]
       ELSE offers[i]]

\* A parse that drops the offers whose price is no number.
ParseFiltered(text) == SelectSeq(text, LAMBDA o : ~o.price.nan)

\* JSON.parse of such a text: the objects it wrote.
Parse(text) == text

\* x || 'no-...' inside the template literal of the key.
OrElse(x, sentinel) == IF Truthy(x) THEN x ELSE sentinel

\* A key that leaves the postal code out.
CacheKeyNoZip(q) ==
  <<"s", "e", "a", "r", "c", "h", ":">> \o ToLowerCase(Trim(q.item))
    \o <<":">> \o OrElse(q.lat, <<"n", "o", "-", "l", "a", "t">>)
    \o <<":">> \o OrElse(q.lon, <<"n", "o", "-", "l", "o", "n">>)

\* `search:${item.trim().toLowerCase()}:${lat || 'no-lat'}:${lon ||
\* 'no-lon'}:${zip || 'no-zip'}`
CacheKey(q) ==
  <<"s", "e", "a", "r", "c", "h", ":">> \o ToLowerCase(Trim(q.item))
    \o <<":">> \o OrElse(q.lat, <<"n", "o", "-", "l", "a", "t">>)
    \o <<":">> \o OrElse(q.lon, <<"n", "o", "-", "l", "o", "n">>)
    \o <<":">> \o OrElse(q.zip, <<"n", "o", "-", "z", "i", "p">>)

\* The three responses of /search.
Ok(body) == [status |-> 200, body |-> body]
BadRequest(details) ==
  [status |-> 400,
   body |-> [error |-> "Invalid input parameters", details |-> details]]
InternalError ==
  [status |-> 500,
   body |-> [error |-> "An error occurred while processing your request."]]

\* A catch block that hands the error's message to the client.
CatchHandlerLeaks(error) == [status |-> 500, body |-> [error |-> error]]

\* The catch block of the handler: the error is logged and the response
\* does not depend on it.
CatchHandler(error) == InternalError

(***************************************************************************)
(* Inputs                                                                  *)
(***************************************************************************)

\* Number of /search requests a run handles; they may overlap.
NumReq == 2
\* Number of times the clock advances in a run.
MaxTicks == 2

\* redisClient.set(cacheKey, ..., { EX: 120 })
TTL == 120

Requests == 1..NumReq

\* The clock advances by half the TTL at a time.
TickStep == TTL \div 2

Query(item, lat, lon, zip) == [item |-> item, lat |-> lat, lon |-> lon, zip |-> zip]

Tv == <<"t", "v">>
Laptop == <<"l", "a", "p", "t", "o", "p">>
Zip10001 == <<"1", "0", "0", "0", "1">>
Lat40 == <<"4", "0", ".", "7", "1", "2", "8">>
LonM74 == <<"-", "7", "4", ".", "0", "0", "6", "0">>

\* The queries of the requests: one with an item only, one with a postal
\* code too, one with both coordinates and one that validation rejects.
Queries ==
  { Query(Tv, Undefined, Undefined, Undefined),
    Query(Tv, Undefined, Undefined, Zip10001),
    Query(Laptop, Lat40, LonM74, Undefined),
    Query(<<"<", "t", "v", ">">>, Undefined, Undefined, Undefined) }

\* The queries of the requests when the clock runs: two that normalize to
\* the same key and one with another key.
ClockQueries ==
  { Query(Tv, Undefined, Undefined, Undefined),
    Query(<<" ", "T", "V">>, Undefined, Undefined, Undefined),
    Query(Tv, Undefined, Undefined, Zip10001) }

\* A Walmart product record with the given name, salePrice and itemId, and
\* a large image.
WProduct(name, salePrice, itemId) ==
  [name |-> name, salePrice |-> salePrice, msrp |-> JUndef,
   itemId |-> JNum(itemId), largeImage |-> JStr(<<"i">>),
   mediumImage |-> JUndef, imageEntities |-> <<>>]

\* A Target product record with the given title, current_retail and tcin,
\* and no image.
TProduct(title, price, tcin) ==
  [title |-> title, current_retail |-> price, tcin |-> JNum(tcin),
   image |-> JUndef]

HP == JStr(<<"H", "P">>)
Dell == JStr(<<"D", "e", "l", "l">>)

\* A price string that is no number: "$5".
DollarFive == JStr(<<"$", "5">>)

\* Prices of a long upstream list, in no order: 7, 14, 21, ... modulo 19.
Shuffled(i) == Dollars(1 + ((7 * i) % 19), 0)

\* What the Walmart API may answer: an error; one laptop at 899.99; an
\* offer at 1005.00 followed by one whose price is no number and by a
\* record with price 0; more records than the cap.
WalmartResponses ==
  { AxiosError,
    Body(<<WProduct(HP, JNum(Dollars(899, 99)), 1)>>),
    Body(<<WProduct(HP, JNum(Dollars(1005, 0)), 1), WProduct(HP, DollarFive, 2),
           WProduct(HP, JNum(0), 3)>>),
    Body([i \in 1..(MaxResults + 2) |-> WProduct(HP, JNum(Shuffled(i)), i)]) }

\* What the Target API may answer: an error; one laptop at 999.99; more
\* records than the cap.
TargetResponses ==
  { AxiosError,
    Body(<<TProduct(Dell, JNum(Dollars(999, 99)), 1)>>),
    Body([i \in 1..(MaxResults + 1) |-> TProduct(Dell, JNum(Shuffled(i + 3)), i)]) }

\* The errors a cache operation may fail with.
CacheErrors == {"ECONNREFUSED", "Socket closed unexpectedly"}

(***************************************************************************)
(* State                                                                   *)
(***************************************************************************)

VARIABLES
  signs,           \* whether generateWalmartSignature succeeds with the key
  walmartApi,      \* what the Walmart API answers
  targetApi,       \* what the Target API answers
  now,             \* the clock, in seconds
  ticks,           \* number of times the clock advanced
  cache,           \* Redis: key -> [value, exp, by], exp the expiry time
  pc,              \* where each request's handler stands
  query,           \* req.query of each request
  walmartResults,  \* the promise of scrapeWalmart of each request
  targetResults,   \* the promise of scrapeTarget of each request
  allResults,      \* the merged, sorted array of each request
  error,           \* the error the catch block caught, per request
  sent,            \* the responses each request's handler has sent
  log              \* per request: when it asked the cache, wrote the cache
                   \* and ended, and what the cache answered

vars == <<signs, walmartApi, targetApi, now, ticks, cache, pc, query,
          walmartResults, targetResults, allResults, error, sent, log>>

NoResult == [status |-> "none"]
Pending == [status |-> "pending"]
NoError == "none"
NoQuery == Query(Undefined, Undefined, Undefined, Undefined)

Never == 0 - 1
NoLog == [getAt |-> Never, setAt |-> Never, doneAt |-> Never, got |-> "none"]

\* The server listens: the cache is empty and no request has arrived.
Listening ==
  /\ now = 0
  /\ ticks = 0
  /\ cache = <<>>
  /\ pc = [r \in Requests |-> "idle"]
  /\ query = [r \in Requests |-> NoQuery]
  /\ walmartResults = [r \in Requests |-> NoResult]
  /\ targetResults = [r \in Requests |-> NoResult]
  /\ allResults = [r \in Requests |-> <<>>]
  /\ error = [r \in Requests |-> NoError]
  /\ sent = [r \in Requests |-> <<>>]
  /\ log = [r \in Requests |-> NoLog]

\* The state once the server listens.  With a key that does not sign the
\* Walmart API is never asked, so what it would answer is left fixed.
Init ==
  /\ signs \in BOOLEAN
  /\ walmartApi \in WalmartResponses
  /\ ~signs => walmartApi = AxiosError
  /\ targetApi \in TargetResponses
  /\ Listening

(***************************************************************************)
(* Redis                                                                   *)
(***************************************************************************)

\* GET key: the entry that has not expired, or null.
NoEntry == [value |-> "null"]
RedisGet(key) ==
  IF key \in DOMAIN cache /\ now < cache[key].exp THEN cache[key] ELSE NoEntry

\* A SET whose entry lives half as long.
RedisSetHalf(key, value, ttl, by) ==
  [k \in DOMAIN cache \cup {key} |->
     IF k = key THEN [value |-> value, exp |-> now + (ttl \div 2), by |-> by]
     ELSE cache[k]]

\* A SET that is left out when the array is empty.
RedisSetNonEmpty(key, value, ttl, by) ==
  IF value = <<>> THEN cache
  ELSE [k \in DOMAIN cache \cup {key} |->
          IF k = key THEN [value |-> value, exp |-> now + ttl, by |-> by]
          ELSE cache[k]]

\* SET key value EX ttl NX: the entry is written only if the key holds none.
RedisSetNX(key, value, ttl, by) ==
  IF key \in DOMAIN cache THEN cache
  ELSE [k \in DOMAIN cache \cup {key} |->
          IF k = key THEN [value |-> value, exp |-> now + ttl, by |-> by]
          ELSE cache[k]]

\* A SET without EX: the entry outlives every run.
RedisSetForever(key, value, ttl, by) ==
  [k \in DOMAIN cache \cup {key} |->
     IF k = key THEN [value |-> value, exp |-> now + 1000 * ttl, by |-> by]
     ELSE cache[k]]

\* SET key value EX ttl: the entry replaces the one under the key.
RedisSet(key, value, ttl, by) ==
  [k \in DOMAIN cache \cup {key} |->
     IF k = key THEN [value |-> value, exp |-> now + ttl, by |-> by]
     ELSE cache[k]]

\* The entries that have not expired at time t.
Unexpired(t) ==
  [k \in {j \in DOMAIN cache : t < cache[j].exp} |-> cache[k]]

(***************************************************************************)
(* GET /search                                                             *)
(***************************************************************************)

\* A response after which the handler goes on (a missing return).
SendAndGoOn(r, response) ==
  /\ sent' = [sent EXCEPT ![r] = Append(@, response)]
  /\ pc' = pc

\* res.json(...) or res.status(...).json(...): the response is sent and the
\* handler ends.
Send(r, response) ==
  /\ sent' = [sent EXCEPT ![r] = Append(@, response)]
  /\ pc' = [pc EXCEPT ![r] = "done"]

\* Lines 123-128: with both coordinates the stores are resolved.  The array
\* handed to Promise.all calls findNearestWalmartStore and then
\* findNearestTargetStore, which no file defines: the call raises a
\* ReferenceError, whatever findNearestWalmartStore does.
RefError == "ReferenceError: findNearestTargetStore is not defined"
ResolveStores(q) ==
  IF Truthy(q.lat) /\ Truthy(q.lon)
    THEN [threw |-> TRUE, reason |-> RefError]
    ELSE [threw |-> FALSE, reason |-> NoError]

\* walmartResults.value || []: the value of a fulfilled promise, [] for a
\* rejected one.
ValueOrEmpty(result) ==
  IF result.status = "fulfilled" THEN result.value ELSE <<>>

\* Lines 135-140: both values, Walmart's first, sorted by price.
Merge(w, t) == SortByPrice(ValueOrEmpty(w) \o ValueOrEmpty(t))

\* A join that goes on as soon as one promise has settled.
AnySettled(r) == walmartResults[r] # Pending \/ targetResults[r] # Pending

\* await Promise.allSettled([...]): the handler goes on once both promises
\* have settled.
BothSettled(r) == walmartResults[r] # Pending /\ targetResults[r] # Pending

\* A handler that asks the cache whatever validation found.
ReceiveUnchecked(r, q) ==
  /\ pc[r] = "idle"
  /\ \A p \in Requests : p < r => pc[p] # "idle"
  /\ query' = [query EXCEPT ![r] = q]
  /\ pc' = [pc EXCEPT ![r] = "get"]
  /\ UNCHANGED <<signs, walmartApi, targetApi, now, ticks, cache,
                 walmartResults, targetResults, allResults, error, sent, log>>

\* Lines 98-113 for the query q: it is validated, and the request is
\* rejected with the errors or the cache is asked for its key.
Receive(r, q) ==
  LET validationErrors == validateSearchInput(q.item, q.lat, q.lon, q.zip)
  IN  /\ pc[r] = "idle"
      /\ \A p \in Requests : p < r => pc[p] # "idle"
      /\ query' = [query EXCEPT ![r] = q]
      /\ IF Len(validationErrors) > 0
           THEN /\ Send(r, BadRequest(validationErrors))
                /\ log' = [log EXCEPT ![r].doneAt = now]
           ELSE /\ pc' = [pc EXCEPT ![r] = "get"]
                /\ sent' = sent
                /\ log' = log
      /\ UNCHANGED <<signs, walmartApi, targetApi, now, ticks, cache,
                     walmartResults, targetResults, allResults, error>>

\* A request arrives.  Requests are numbered in the order they arrive.
Start(r) == \E q \in Queries : Receive(r, q)

\* Line 113 and what follows it up to the next await: redisClient.get
\* fails (lines 145-148), or it gives the cached text, which is parsed and
\* sent (lines 115-118), or it gives null; then the stores are resolved
\* (lines 120-128) and both adapters are called (lines 130-133).
CacheGet(r) ==
  /\ pc[r] = "get"
  /\ \E outcome \in {"ok"} \cup CacheErrors :
       LET cachedData == RedisGet(CacheKey(query[r]))
           stores == ResolveStores(query[r])
       IN  IF outcome # "ok"
             THEN /\ error' = [error EXCEPT ![r] = outcome]
                  /\ Send(r, CatchHandler(outcome))
                  /\ log' = [log EXCEPT ![r].got = "fail", ![r].getAt = now,
                                        ![r].doneAt = now]
                  /\ UNCHANGED <<walmartResults, targetResults>>
           ELSE IF cachedData # NoEntry
             THEN /\ Send(r, Ok(Stringify(Parse(cachedData.value))))
                  /\ log' = [log EXCEPT ![r].got = "hit", ![r].getAt = now,
                                        ![r].doneAt = now]
                  /\ UNCHANGED <<error, walmartResults, targetResults>>
           ELSE IF stores.threw
             THEN /\ error' = [error EXCEPT ![r] = stores.reason]
                  /\ Send(r, CatchHandler(stores.reason))
                  /\ log' = [log EXCEPT ![r].got = "miss", ![r].getAt = now,
                                        ![r].doneAt = now]
                  /\ UNCHANGED <<walmartResults, targetResults>>
           ELSE /\ walmartResults' = [walmartResults EXCEPT ![r] = Pending]
                /\ targetResults' = [targetResults EXCEPT ![r] = Pending]
                /\ pc' = [pc EXCEPT ![r] = "fetch"]
                /\ log' = [log EXCEPT ![r].got = "miss", ![r].getAt = now]
                /\ UNCHANGED <<error, sent>>
  /\ UNCHANGED <<signs, walmartApi, targetApi, now, ticks, cache, query,
                 allResults>>

\* The promise of scrapeWalmart settles.
WalmartSettles(r) ==
  /\ pc[r] = "fetch"
  /\ walmartResults[r] = Pending
  /\ walmartResults' = [walmartResults EXCEPT ![r] = scrapeWalmart(signs, walmartApi)]
  /\ UNCHANGED <<signs, walmartApi, targetApi, now, ticks, cache, pc, query,
                 targetResults, allResults, error, sent, log>>

\* The promise of scrapeTarget settles.
TargetSettles(r) ==
  /\ pc[r] = "fetch"
  /\ targetResults[r] = Pending
  /\ targetResults' = [targetResults EXCEPT ![r] = scrapeTarget(targetApi)]
  /\ UNCHANGED <<signs, walmartApi, targetApi, now, ticks, cache, pc, query,
                 walmartResults, allResults, error, sent, log>>

\* Lines 130-142: once both promises have settled, the results are merged
\* and sorted and redisClient.set writes them, or fails (lines 145-148).
CacheSet(r) ==
  /\ pc[r] = "fetch"
  /\ BothSettled(r)
  /\ \E outcome \in {"ok"} \cup CacheErrors :
       LET merged == Merge(walmartResults[r], targetResults[r])
       IN  /\ allResults' = [allResults EXCEPT ![r] = merged]
           /\ IF outcome # "ok"
                THEN /\ error' = [error EXCEPT ![r] = outcome]
                     /\ Send(r, CatchHandler(outcome))
                     /\ log' = [log EXCEPT ![r].doneAt = now]
                     /\ cache' = cache
                ELSE /\ cache' = RedisSet(CacheKey(query[r]), Stringify(merged), TTL, r)
                     /\ pc' = [pc EXCEPT ![r] = "respond"]
                     /\ log' = [log EXCEPT ![r].setAt = now]
                     /\ UNCHANGED <<error, sent>>
  /\ UNCHANGED <<signs, walmartApi, targetApi, now, ticks, query,
                 walmartResults, targetResults>>

\* Line 144: res.json(allResults).
Respond(r) ==
  /\ pc[r] = "respond"
  /\ Send(r, Ok(Stringify(allResults[r])))
  /\ log' = [log EXCEPT ![r].doneAt = now]
  /\ UNCHANGED <<signs, walmartApi, targetApi, now, ticks, cache, query,
                 walmartResults, targetResults, allResults, error>>

\* Time passes; Redis drops the entries that expire.
Tick ==
  /\ ticks < MaxTicks
  /\ now' = now + TickStep
  /\ cache' = Unexpired(now + TickStep)
  /\ ticks' = ticks + 1
  /\ UNCHANGED <<signs, walmartApi, targetApi, pc, query, walmartResults,
                 targetResults, allResults, error, sent, log>>

Handler(r) ==
  \/ CacheGet(r)
  \/ WalmartSettles(r)
  \/ TargetSettles(r)
  \/ CacheSet(r)
  \/ Respond(r)

\* The pipeline over every query and every answer of the backends, the
\* clock standing still.
Next == \E r \in Requests : Start(r) \/ Handler(r)

Spec == Init /\ [][Next]_vars

\* The same, given that the event loop runs a continuation that is ready:
\* a Redis command settles, an axios call settles (its timeout is 10
\* seconds), and a handler goes on after its await.
\* It is checked with both backends answering one offer, and with both
\* adapters failing (Walmart's by raising).
InitLive ==
  /\ Init
  /\ IF signs
       THEN /\ walmartApi = Body(<<WProduct(HP, JNum(Dollars(899, 99)), 1)>>)
            /\ targetApi = Body(<<TProduct(Dell, JNum(Dollars(999, 99)), 1)>>)
       ELSE targetApi = AxiosError

SpecLive ==
  InitLive /\ [][Next]_vars /\ WF_vars(\E r \in Requests : Handler(r))

\* The pipeline with the clock running: the requests come one after the
\* other, and the backends answer one offer each.
InitClock ==
  /\ Init
  /\ signs
  /\ walmartApi = Body(<<WProduct(HP, JNum(Dollars(899, 99)), 1)>>)
  /\ targetApi = Body(<<TProduct(Dell, JNum(Dollars(999, 99)), 1)>>)

\* A request arrives once the requests before it have ended.
Arrive(r) ==
  /\ \A p \in Requests : p < r => pc[p] = "done"
  /\ \E q \in ClockQueries : Receive(r, q)

NextClock ==
  \/ \E r \in Requests : Arrive(r) \/ Handler(r)
  \/ Tick

SpecClock == InitClock /\ [][NextClock]_vars

(***************************************************************************)
(* Validation alone, over many queries                                     *)
(***************************************************************************)

Chars(n, c) == [i \in 1..n |-> c]

RawItems ==
  { Undefined, <<>>, <<" ", " ">>, Tv, <<" ", "T", "V">>,
    Chars(MaxItemLength, "a"), Chars(MaxItemLength + 1, "a"),
    Chars(MaxItemLength + 1, " "), <<"a">> \o Chars(MaxItemLength, " "),
    <<"a", "<">>, <<">", "a">>, <<"a", "'", "b">>, <<"\"">>, <<"t", "&", "v">>,
    Chars(MaxItemLength, "a") \o <<"&">> }

RawLatitudes ==
  { Undefined, <<>>, <<"9", "0">>, <<"-", "9", "0">>,
    <<"9", "0", ".", "0", "0", "0", "1">>,
    <<"-", "9", "0", ".", "0", "0", "0", "1">>,
    Lat40, <<"0">>, <<"a", "b", "c">>, <<"9", "0", "a">>, <<" ">>,
    <<" ", "4", "5", " ">>, <<"9", "1">> }

RawLongitudes ==
  { Undefined, <<"1", "8", "0">>, <<"-", "1", "8", "0">>,
    <<"1", "8", "0", ".", "0", "0", "0", "1">>,
    <<"-", "1", "8", "0", ".", "0", "0", "0", "1">>,
    LonM74, <<"x">>, <<"\t">> }

RawZips ==
  { Undefined, <<>>, Zip10001, Zip10001 \o <<"-", "1", "2", "3", "4">>,
    <<"1", "0", "0", "0">>, <<"A", "B", "C", "D", "E">>,
    Zip10001 \o <<"1", "2", "3", "4">>, Zip10001 \o <<"-", "1", "2", "3">>,
    Zip10001 \o <<"-">> }

RawQueries ==
  { Query(i, la, lo, z) : i \in RawItems, la \in RawLatitudes,
                          lo \in RawLongitudes, z \in RawZips }

\* The first request arrives with any of the queries.
Validate == \E q \in RawQueries : Receive(1, q)

InitValidate == InitClock

NextValidate == Validate

SpecValidate == InitValidate /\ [][NextValidate]_vars

(***************************************************************************)
(* Properties                                                              *)
(***************************************************************************)

Done(r) == pc[r] = "done"

\* The request's query passed validation.
Valid(r) ==
  /\ pc[r] # "idle"
  /\ validateSearchInput(query[r].item, query[r].lat, query[r].lon,
                         query[r].zip) = <<>>

HasCoordinates(r) == Truthy(query[r].lat) /\ Truthy(query[r].lon)

\* The request asked the cache, the cache answered that it holds nothing,
\* and no cache operation of the request failed.
MissedCache(r) == log[r].got = "miss" /\ error[r] \notin CacheErrors

\* The 200 responses a request's handler has sent.
Bodies(r) == {sent[r][k].body : k \in {j \in DOMAIN sent[r] : sent[r][j].status = 200}}

\* No offer of the sequence has a price above the price of a later one.
NonDecreasing(offers) ==
  \A i, j \in DOMAIN offers :
    i < j => ~NumGt(offers[i].price, offers[j].price)

\* The same offers, each as many times, in whatever order.
SameOffers(a, b) ==
  /\ Len(a) = Len(b)
  /\ \A i \in DOMAIN a :
       Cardinality({k \in DOMAIN a : a[k] = a[i]})
         = Cardinality({k \in DOMAIN b : b[k] = a[i]})

CountOf(offers, store) == Cardinality({i \in DOMAIN offers : offers[i].store = store})

\* What the adapters return in this run: the offers, [] for a failure.
WalmartOffers == ValueOrEmpty(scrapeWalmart(signs, walmartApi))
TargetOffers == ValueOrEmpty(scrapeTarget(targetApi))

\* The adapter fails internally: the call to the backend fails, or, for
\* Walmart, the request cannot be signed.
WalmartFails == ~signs \/ walmartApi = AxiosError
TargetFails == targetApi = AxiosError

\* C1: every 200 response of /search, fresh or from the cache, is sorted
\* non-decreasing by price.
C1_SortedByPrice ==
  \A r \in Requests : \A body \in Bodies(r) : NonDecreasing(body)

\* C2: a valid request that misses the cache, with one adapter failing
\* while the other returns offers, ends with a 200 response holding exactly
\* the other adapter's offers.
C2_PartialFailure ==
  \A r \in Requests :
    (Done(r) /\ Valid(r) /\ MissedCache(r)) =>
      /\ (WalmartFails /\ ~TargetFails) =>
           /\ Len(sent[r]) = 1
           /\ sent[r][1].status = 200
           /\ SameOffers(sent[r][1].body, Stringify(TargetOffers))
      /\ (TargetFails /\ ~WalmartFails) =>
           /\ Len(sent[r]) = 1
           /\ sent[r][1].status = 200
           /\ SameOffers(sent[r][1].body, Stringify(WalmartOffers))

\* C3: a valid request with a latitude and a longitude that misses the
\* cache, Walmart returning one offer at 899.99 and Target one at 999.99,
\* ends with a 200 response: the Walmart offer, then the Target offer.
C3_CoordinatesScenario ==
  \A r \in Requests :
    ( /\ Done(r) /\ Valid(r) /\ HasCoordinates(r) /\ MissedCache(r)
      /\ Len(WalmartOffers) = 1 /\ WalmartOffers[1].price = Num(89999)
      /\ Len(TargetOffers) = 1 /\ TargetOffers[1].price = Num(99999) ) =>
      /\ Len(sent[r]) = 1
      /\ sent[r][1].status = 200
      /\ sent[r][1].body = Stringify(WalmartOffers \o TargetOffers)

\* C4: with both coordinates, a failing location resolution does not fail
\* the pipeline: after a cache miss the request goes on to call both
\* adapters, and it never fails because of the resolution.
C4_ResolutionNeverFails ==
  \A r \in Requests :
    (HasCoordinates(r) /\ MissedCache(r)) =>
      /\ error[r] = NoError
      /\ walmartResults[r] # NoResult
      /\ targetResults[r] # NoResult

\* Number of times the request called the adapters (both are called
\* together).
Invocations(r) == IF walmartResults[r] # NoResult THEN 1 ELSE 0

\* r1 and r2 are the two requests of one normalized query: both ended, r2
\* arrived after r1 ended, no cache operation of theirs failed and no other
\* request has their key.
Twice(r1, r2) ==
  /\ r1 < r2
  /\ Done(r1) /\ Done(r2)
  /\ Valid(r1) /\ Valid(r2)
  /\ CacheKey(query[r1]) = CacheKey(query[r2])
  /\ error[r1] = NoError /\ error[r2] = NoError
  /\ \A r3 \in Requests \ {r1, r2} :
       pc[r3] = "idle" \/ ~Valid(r3) \/ CacheKey(query[r3]) # CacheKey(query[r1])

GenericFailure ==
  [status |-> 500,
   body |-> [error |-> "An error occurred while processing your request."]]

\* C6: a request one of whose cache operations failed ends with one 500
\* response whose body is the generic message, whatever the failure was,
\* and returns no offers even when the merge had been done.
C6_CacheFailureIsGeneric500 ==
  \A r \in Requests :
    error[r] \in CacheErrors =>
      /\ Done(r)
      /\ sent[r] = <<GenericFailure>>

\* C6's case: the cache write failed after a merge that held offers, and
\* another request failed with another error.
C6_SetFailedAfterMerge ==
  \E r1, r2 \in Requests :
    /\ error[r1] \in CacheErrors
    /\ walmartResults[r1] # NoResult
    /\ allResults[r1] # <<>>
    /\ error[r2] \in CacheErrors
    /\ error[r2] # error[r1]

\* The 200 response whose body is the empty list.
EmptyList == [status |-> 200, body |-> <<>>]

\* C7: a valid request that misses the cache, both adapters returning no
\* offers, ends with a 200 response whose body is the empty list.
C7_TotalEmpty ==
  \A r \in Requests :
    ( /\ Done(r) /\ Valid(r) /\ MissedCache(r)
      /\ WalmartOffers = <<>> /\ TargetOffers = <<>> ) =>
      sent[r] = <<EmptyList>>

\* C9: neither adapter raises to its caller: its promise is never rejected.
C9_AdaptersNeverRaise ==
  \A r \in Requests :
    /\ walmartResults[r].status # "rejected"
    /\ targetResults[r].status # "rejected"

\* C10: each adapter returns at most 10 offers, and every 200 response
\* holds at most 20 offers, at most 10 of Walmart and at most 10 of Target.
C10_AtMostTenPerStore ==
  \A r \in Requests :
    /\ Len(ValueOrEmpty(walmartResults[r])) <= 10
    /\ Len(ValueOrEmpty(targetResults[r])) <= 10
    /\ \A body \in Bodies(r) :
         /\ Len(body) <= 20
         /\ CountOf(body, "Walmart") <= 10
         /\ CountOf(body, "Target") <= 10

\* C10's case: both backends list more than 10 records, and a fresh and a
\* cached response hold 10 offers of each store.
C10_TwentyOffers ==
  /\ walmartApi.t = "data" /\ Len(walmartApi.items) > 10
  /\ targetApi.t = "data" /\ Len(targetApi.items) > 10
  /\ \E r1, r2 \in Requests :
       /\ log[r1].got = "miss" /\ log[r2].got = "hit"
       /\ \A r \in {r1, r2} :
            /\ Done(r)
            /\ sent[r][1].status = 200
            /\ CountOf(sent[r][1].body, "Walmart") = 10
            /\ CountOf(sent[r][1].body, "Target") = 10

(***************************************************************************)
(* C8: the rules of validation, as the requirements state them              *)
(***************************************************************************)

\* A parameter is present when it is given and not empty.
Present(x) == x # Undefined /\ x # <<>>

\* s is a decimal number (white space around it allowed) of at most max in
\* absolute value.
IsNumberWithin(s, max) ==
  LET t == Trim(s)
      p == DecimalPrefix(t)
  IN  /\ t # <<>>
      /\ p.ok /\ p.len = Len(t)
      /\ 0 - max * Scale <= p.v /\ p.v <= max * Scale

\* The messages of the rules the query violates, in the order of the rules.
Violations(q) ==
  (IF ~Present(q.item) \/ Trim(q.item) = <<>> THEN <<ErrRequired>> ELSE <<>>)
  \o (IF Present(q.item) /\ Len(q.item) > 200 THEN <<ErrTooLong>> ELSE <<>>)
  \o (IF Present(q.item) /\ \E i \in DOMAIN q.item : q.item[i] \in {"<", ">", "'", "\"", "&"}
        THEN <<ErrChars>> ELSE <<>>)
  \o (IF Present(q.lat) /\ ~IsNumberWithin(q.lat, 90) THEN <<ErrLat>> ELSE <<>>)
  \o (IF Present(q.lon) /\ ~IsNumberWithin(q.lon, 180) THEN <<ErrLon>> ELSE <<>>)
  \o (IF Present(q.zip) /\ ~ZipMatches(q.zip) THEN <<ErrZip>> ELSE <<>>)

\* C8: a request is rejected with 400 exactly when its query violates a
\* rule, and details then holds the message of each violated rule.
C8_RejectedIffRuleViolated ==
  \A r \in Requests :
    pc[r] # "idle" =>
      IF Violations(query[r]) # <<>>
        THEN sent[r] = <<[status |-> 400,
                          body |-> [error |-> "Invalid input parameters",
                                    details |-> Violations(query[r])]]>>
        ELSE pc[r] = "get" /\ sent[r] = <<>>

(***************************************************************************)
(* One response, the join, the cache hit                                   *)
(***************************************************************************)

\* The request asked the cache, missed it, and called the adapters.
Fetched(r) == log[r].got = "miss" /\ walmartResults[r] # NoResult

Settled(result) == result.status \in {"fulfilled", "rejected"}

\* C11: every request that arrives ends, and its handler has ended exactly
\* when one response has been sent: a 200, a 400 or a 500, never a second
\* one, never an error after a payload, also when the cache write fails
\* after the merge; a response that was sent is never changed.
C11_ExactlyOneResponse ==
  /\ [](\A r \in Requests :
          /\ Len(sent[r]) <= 1
          /\ Done(r) <=> Len(sent[r]) = 1
          /\ Len(sent[r]) = 1 =>
               /\ sent[r][1].status \in {200, 400, 500}
               /\ sent[r][1].status = 400 <=> (pc[r] # "idle" /\ ~Valid(r))
               /\ sent[r][1].status = 500 <=> error[r] # NoError)
  /\ [][\A r \in Requests : sent[r] # <<>> => sent'[r] = sent[r]]_vars
  /\ \A r \in Requests : (pc[r] # "idle") ~> Done(r)

\* C11's case: a request ended with one 500 after its cache write failed on
\* a merge that held offers, and another request was served.
C11_FailedAfterMergeAndServed ==
  \E r1, r2 \in Requests :
    /\ Done(r1) /\ Fetched(r1) /\ allResults[r1] # <<>>
    /\ error[r1] \in CacheErrors
    /\ sent[r1][1].status = 500
    /\ Done(r2)
    /\ sent[r2][1].status = 200

\* C12: on a cache miss the merge, the cache write and the response come
\* only once both adapters have settled, whichever settles first: the step
\* that leaves the fetch starts with both settled, what is merged is what
\* both returned (a failing adapter counts for nothing and does not change
\* the other's offers), and an adapter that has settled stays as it is.
C12_JoinBarrier ==
  /\ [](\A r \in Requests :
          (Fetched(r) /\ pc[r] \in {"respond", "done"}) =>
            /\ Settled(walmartResults[r])
            /\ Settled(targetResults[r])
            /\ walmartResults[r] = scrapeWalmart(signs, walmartApi)
            /\ targetResults[r] = scrapeTarget(targetApi)
            /\ allResults[r] = Merge(scrapeWalmart(signs, walmartApi),
                                     scrapeTarget(targetApi))
            /\ \A body \in Bodies(r) : body = Stringify(allResults[r]))
  /\ [][\A r \in Requests :
          /\ (pc[r] = "fetch" /\ pc'[r] # "fetch") =>
               Settled(walmartResults[r]) /\ Settled(targetResults[r])
          /\ Settled(walmartResults[r]) => walmartResults'[r] = walmartResults[r]
          /\ Settled(targetResults[r]) => targetResults'[r] = targetResults[r]]_vars

\* C12's case: one request was served Target's offers though Walmart's
\* promise was rejected, and in another Target has settled while Walmart is
\* outstanding.
C12_OneFailedOneOutstanding ==
  \E r1, r2 \in Requests :
    /\ Done(r1) /\ Fetched(r1)
    /\ walmartResults[r1].status = "rejected"
    /\ sent[r1][1].status = 200 /\ Len(sent[r1][1].body) > 0
    /\ pc[r2] = "fetch"
    /\ walmartResults[r2] = Pending
    /\ Settled(targetResults[r2])

\* C13: a cache hit ends the request with a 200 whose body is the cached
\* offers as they were stored, in their order, and calls no resolver and no
\* adapter: nothing else of the state changes, the cache included.
C13_HitServesStored ==
  /\ [](\A r \in Requests :
          log[r].got = "hit" =>
            /\ Done(r)
            /\ Len(sent[r]) = 1 /\ sent[r][1].status = 200
            /\ walmartResults[r] = NoResult
            /\ targetResults[r] = NoResult
            /\ allResults[r] = <<>>
            /\ error[r] = NoError
            /\ log[r].setAt = Never)
  /\ [][\A r \in Requests :
          (log[r].got # "hit" /\ log'[r].got = "hit") =>
            /\ CacheKey(query[r]) \in DOMAIN cache
            /\ sent'[r] = <<[status |-> 200,
                            body |-> cache[CacheKey(query[r])].value]>>
            /\ cache' = cache
            /\ walmartResults' = walmartResults
            /\ targetResults' = targetResults
            /\ allResults' = allResults]_vars

\* C13's case: a hit on an entry whose offers are not in the order of their
\* prices.
C13_HitOnUnsortedEntry ==
  \E r \in Requests :
    /\ log[r].got = "hit"
    /\ Done(r)
    /\ Len(sent[r][1].body) = 3
    /\ sent[r][1].body[2].price.nan
    /\ NumGt(sent[r][1].body[1].price, sent[r][1].body[3].price)

(***************************************************************************)
(* The cache write, the merge, concurrent requests                         *)
(***************************************************************************)

\* The step of request r that leaves the fetch with the cache written.
Wrote(r) == pc[r] = "fetch" /\ pc'[r] = "respond"

\* C14: a request that missed the cache and merged writes the array the
\* sort step left, empty or not, under its key with a life of 120 seconds,
\* and only then responds, with a body equal to the value it wrote; the
\* only other way out of the merge is a failed cache write.
C14_WritesBeforeResponding ==
  /\ [](\A r \in Requests :
          /\ ((pc[r] = "respond") \/ (Done(r) /\ Fetched(r) /\ error[r] = NoError)) =>
               /\ log[r].setAt # Never
               /\ allResults[r] = Merge(walmartResults[r], targetResults[r])
          /\ (Done(r) /\ Fetched(r) /\ error[r] = NoError) =>
               sent[r] = <<[status |-> 200, body |-> Stringify(allResults[r])]>>)
  /\ [][\A r \in Requests :
          /\ (pc[r] = "fetch" /\ pc'[r] # "fetch") =>
               Wrote(r) \/ error'[r] \in CacheErrors
          /\ Wrote(r) =>
               /\ sent'[r] = <<>>
               /\ CacheKey(query[r]) \in DOMAIN cache'
               /\ cache'[CacheKey(query[r])] =
                    [value |-> Stringify(Merge(walmartResults[r], targetResults[r])),
                     exp |-> now + 120, by |-> r]]_vars

\* C14's case: both adapters failed, the empty array was written under the
\* request's key and the request was served the empty array.
C14_EmptyWritten ==
  \E r \in Requests :
    /\ Done(r) /\ Fetched(r)
    /\ WalmartFails /\ TargetFails
    /\ sent[r] = <<EmptyList>>
    /\ CacheKey(query[r]) \in DOMAIN cache
    /\ cache[CacheKey(query[r])].value = <<>>
    /\ cache[CacheKey(query[r])].exp = log[r].setAt + 120

\* The place of an offer in a sequence that holds it.
Position(offers, o) == CHOOSE k \in DOMAIN offers : offers[k] = o

\* out is the stable sort of in by price, ascending: the same offers, no
\* price before a price that is not greater or equal, and offers of equal
\* price in the order they have in in.
IsStableSort(out, in) ==
  /\ SameOffers(out, in)
  /\ \A i, j \in DOMAIN out :
       i < j => (~out[i].price.nan /\ ~out[j].price.nan
                 /\ out[i].price.v <= out[j].price.v)
  /\ \A i, j \in DOMAIN in :
       (i < j /\ in[i].price = in[j].price) =>
         Position(out, in[i]) < Position(out, in[j])

\* C15: whichever adapter settles first, the merged sequence is the stable
\* sort by price, ascending, of Walmart's offers followed by Target's.
C15_StableMerge ==
  \A r \in Requests :
    (Fetched(r) /\ pc[r] \in {"respond", "done"}) =>
      IsStableSort(allResults[r],
                   ValueOrEmpty(scrapeWalmart(signs, walmartApi))
                     \o ValueOrEmpty(scrapeTarget(targetApi)))

Amounts ==
  { [s |-> <<"4", "1", ".", "5", "8">>, v |-> Dollars(41, 58)],
    [s |-> <<"1", ",", "0", "4", "1", ".", "5", "8">>, v |-> Dollars(1041, 58)],
    [s |-> <<"1", "0">>, v |-> Dollars(10, 0)],
    [s |-> <<"0", ".", "5">>, v |-> Dollars(0, 50)] }

Durations ==
  { [s |-> <<"1">>, n |-> 1], [s |-> <<"1", "2">>, n |-> 12],
    [s |-> <<"2", "4">>, n |-> 24] }

\* The plans on offer: those of less than $20,000 in instalments.
Plans ==
  {pl \in Amounts \X Durations : (pl[1].v \div Scale) * pl[2].n < 20000}

\* The down payments, and the words that lead to them.
DownAmounts ==
  { [s |-> <<"0">>, v |-> 0], [s |-> <<"1", "0", "0">>, v |-> Dollars(100, 0)],
    [s |-> <<"1", ",", "0", "0", "0", ".", "5", "0">>, v |-> Dollars(1000, 50)] }
DownLeads == { <<" ", "w", "i", "t", "h", " ">>, <<",", " ">> }
NoDown == [lead |-> <<>>, s |-> <<>>, v |-> 0]
DownPayments ==
  {NoDown} \cup {[lead |-> l, s |-> d.s, v |-> d.v] : l \in DownLeads, d \in DownAmounts}

\* "$M/month for D months[ with $P down]"
InstallmentText(m, d, p) ==
  <<"$">> \o m.s \o SlashMonth \o <<" ", "f", "o", "r", " ">> \o d.s
    \o <<" ">> \o Month \o <<"s">>
    \o (IF p = NoDown THEN <<>> ELSE p.lead \o <<"$">> \o p.s \o <<" ">> \o Down)

\* Prices that are no installment: numbers, a number in a string, a string
\* that is no number, a monthly amount without a duration.
PlainPrices ==
  { JNum(Dollars(899, 99)), JNum(Dollars(12, 34) + 6 * (Scale \div 1000)),
    JNum(Dollars(5, 0)), JStr(<<"8", "9", "9", ".", "9", "9">>), DollarFive,
    JStr(<<"$", "4", "1", ".", "5", "8">> \o SlashMonth) }

\* The upstream prices of the Walmart record.
UpstreamPrices ==
  {JStr(InstallmentText(pl[1], pl[2], p)) : pl \in Plans, p \in DownPayments}
    \cup PlainPrices

\* The Walmart API answers one record with one of the prices; the Target
\* API fails.
InitPrice ==
  /\ signs = TRUE
  /\ walmartApi \in {Body(<<WProduct(HP, price, 1)>>) : price \in UpstreamPrices}
  /\ targetApi = AxiosError
  /\ Listening

\* The query of the request: an item only.
TvQuery == Query(Tv, Undefined, Undefined, Undefined)

NextPrice ==
  \/ Receive(1, TvQuery)
  \/ Handler(1)

SpecPrice == InitPrice /\ [][NextPrice]_vars

\* x (fixed point) to the nearest cent.
Round2(x) == (x + Scale \div 200) \div (Scale \div 100)

\* The one offer scrapeWalmart returned has the price cents.
WalmartPriceIs(r, cents) ==
  /\ Len(walmartResults[r].value) = 1
  /\ walmartResults[r].value[1].price = Num(cents)

\* "$41.58/month for 24 months with $0 down"
ExamplePrice ==
  JStr(<<"$", "4", "1", ".", "5", "8">> \o SlashMonth
       \o <<" ", "f", "o", "r", " ", "2", "4", " ">> \o Month
       \o <<"s", " ", "w", "i", "t", "h", " ", "$", "0", " ">> \o Down)

\* "$1,041.58/month for 12 months, $1,000.50 down"
LargePrice ==
  JStr(InstallmentText(
    [s |-> <<"1", ",", "0", "4", "1", ".", "5", "8">>, v |-> Dollars(1041, 58)],
    [s |-> <<"1", "2">>, n |-> 12],
    [lead |-> <<",", " ">>, s |-> <<"1", ",", "0", "0", "0", ".", "5", "0">>,
     v |-> Dollars(1000, 50)]))

\* C17: once scrapeWalmart has returned, the offer made of the record
\* "$M/month for D months[ with $P down]" has the price M * D + P to the
\* cent, 997.92 for "$41.58/month for 24 months with $0 down"; the offer
\* made of any other price has that price parsed as a number, to the cent.
C17_InstallmentPrice ==
  \A r \in Requests :
    walmartResults[r].status = "fulfilled" =>
      LET price == walmartApi.items[1].salePrice
      IN  /\ \A m \in Amounts, d \in Durations, p \in DownPayments :
               price = JStr(InstallmentText(m, d, p)) =>
                 WalmartPriceIs(r, Round2(m.v * d.n + p.v))
          /\ price = ExamplePrice => WalmartPriceIs(r, 99792)
          /\ (price \in PlainPrices /\ price.t = "number") =>
               WalmartPriceIs(r, Round2(price.n))
          /\ (price \in PlainPrices /\ price.t = "string") =>
               /\ Len(walmartResults[r].value) = 1
               /\ walmartResults[r].value[1].price
                    = (IF ParseFloat(price.s).nan THEN NaN
                       ELSE Num(Round2(ParseFloat(price.s).v)))

\* C17's case: the offer of an installment price with a down payment and a
\* thousands separator has been served.
C17_InstallmentWithDownServed ==
  \E r \in Requests :
    /\ Done(r)
    /\ walmartApi.items[1].salePrice = LargePrice
    /\ sent[r][1].status = 200
    /\ sent[r][1].body[1].price = Num(1349946)

(***************************************************************************)
(* Rejected requests, the cache key, expiry                                *)
(***************************************************************************)

\* The request has arrived with a query that breaks a rule of validation.
Invalid(r) ==
  /\ pc[r] # "idle"
  /\ validateSearchInput(query[r].item, query[r].lat, query[r].lon,
                         query[r].zip) # <<>>

\* C18: a request whose query fails validation ends at once with a 400 and
\* does nothing else: no cache get, no cache set, no store resolution, no
\* adapter call; its arrival leaves the cache as it was, and no entry of
\* the cache is ever written by such a request.
C18_RejectedHasNoEffect ==
  /\ [](\A r \in Requests :
          Invalid(r) =>
            /\ Done(r)
            /\ Len(sent[r]) = 1 /\ sent[r][1].status = 400
            /\ log[r].got = "none"
            /\ log[r].getAt = Never /\ log[r].setAt = Never
            /\ walmartResults[r] = NoResult /\ targetResults[r] = NoResult
            /\ allResults[r] = <<>>
            /\ error[r] = NoError
            /\ \A k \in DOMAIN cache : cache[k].by # r)
  /\ [][\A r \in Requests :
          (pc[r] = "idle" /\ sent'[r] # <<>>) =>
            /\ cache' = cache
            /\ walmartResults' = walmartResults
            /\ targetResults' = targetResults
            /\ allResults' = allResults
            /\ error' = error]_vars

\* C18's case: a request was rejected while the cache held an entry, and
\* the entry is still there.
C18_RejectedWithCacheFilled ==
  \E r1, r2 \in Requests :
    /\ Done(r1) /\ sent[r1][1].status = 200 /\ log[r1].setAt # Never
    /\ r1 < r2
    /\ Invalid(r2) /\ Done(r2) /\ sent[r2][1].status = 400
    /\ CacheKey(query[r1]) \in DOMAIN cache
    /\ cache[CacheKey(query[r1])].by = r1

(***************************************************************************)
(* The cache key, over queries that look alike                             *)
(***************************************************************************)

A == <<"a">>
One == <<"1">>

\* Queries whose keys look alike: the item in other case and with white
\* space around it; a colon, a value or a sentinel in the item where the
\* next field would start; a latitude only, a longitude only, a postal
\* code only; an empty and a blank latitude.
KeyQueries ==
  { Query(A, Undefined, Undefined, Undefined),
    Query(<<" ", "A", " ">>, Undefined, Undefined, Undefined),
    Query(A, <<>>, Undefined, Undefined),
    Query(A \o <<":">> \o One, Undefined, Undefined, Undefined),
    Query(A, One, Undefined, Undefined),
    Query(A, Undefined, One, Undefined),
    Query(A, One \o <<".", "0">>, Undefined, Undefined),
    Query(A, <<" ">>, Undefined, Undefined),
    Query(A \o <<":", "n", "o", "-", "l", "a", "t">>, Undefined, Undefined, Undefined),
    Query(A, Undefined, Undefined, Zip10001),
    Query(A \o <<":", "n", "o", "-", "l", "a", "t", ":", "n", "o", "-", "l", "o", "n">>,
          Undefined, Undefined, Zip10001) }

\* A request arrives with one of them once the requests before it have
\* ended.
ArriveKey(r) ==
  /\ \A p \in Requests : p < r => pc[p] = "done"
  /\ \E q \in KeyQueries : Receive(r, q)

NextKey == \E r \in Requests : ArriveKey(r) \/ Handler(r)

SpecKey == InitClock /\ [][NextKey]_vars

\* The tuple a validated query stands for.
Tuple(q) ==
  << ToLowerCase(Trim(q.item)),
     IF q.lat = Undefined \/ q.lat = <<>> THEN <<"n", "o", "-", "l", "a", "t">> ELSE q.lat,
     IF q.lon = Undefined \/ q.lon = <<>> THEN <<"n", "o", "-", "l", "o", "n">> ELSE q.lon,
     IF q.zip = Undefined \/ q.zip = <<>> THEN <<"n", "o", "-", "z", "i", "p">> ELSE q.zip >>

C20_ExpiresByTtlOnly ==
  /\ [](\A k \in DOMAIN cache :
          /\ log[cache[k].by].setAt # Never
          /\ log[cache[k].by].got = "miss"
          /\ cache[k].exp = log[cache[k].by].setAt + 120
          /\ now < log[cache[k].by].setAt + 120)
  /\ [](\A r \in Requests :
          (log[r].setAt # Never /\ now >= log[r].setAt + 120) =>
            \A k \in DOMAIN cache : cache[k].by # r)
  /\ [][\A r \in Requests :
          /\ (pc[r] = "get" /\ pc'[r] # "get") => cache' = cache
          /\ (log[r].got # "hit" /\ log'[r].got = "hit") =>
               \E w \in Requests :
                 /\ Fetched(w)
                 /\ CacheKey(query[w]) = CacheKey(query[r])
                 /\ log[w].setAt # Never
                 /\ log[w].setAt <= now /\ now - log[w].setAt < 120
                 /\ sent'[r] = <<[status |-> 200,
                                 body |-> Stringify(allResults[w])]>>]_vars

\* C20's case: an entry was written, a later request was served from it
\* 60 seconds after the write, and 120 seconds after the write the entry
\* is gone.
C20_GoneAfterHit ==
  \E r1, r2 \in Requests :
    /\ log[r1].setAt # Never
    /\ log[r2].got = "hit"
    /\ CacheKey(query[r1]) = CacheKey(query[r2])
    /\ log[r2].getAt > log[r1].setAt
    /\ now >= log[r1].setAt + 120
    /\ CacheKey(query[r1]) \notin DOMAIN cache

====
